---- MODULE Spec2Model ----
(***************************************************************************)
(* Model of submit_to_google_play.py: main() resolves the package name and *)
(* the AAB file, upload_to_google_play() authenticates, opens an edit,     *)
(* uploads the bundle chunk by chunk, builds the release dictionary,       *)
(* updates the track and commits the edit.  Every exception raised inside  *)
(* the try block is handled by the single `except Exception` clause.       *)
(*                                                                         *)
(* Python's None is the empty sequence, a present value x is <<x>>.        *)
(* Dictionaries are functions from key strings, so that a missing key is   *)
(* a key outside the DOMAIN.  --rollout is a float in the program; the     *)
(* model draws it from integer percentages.                                *)
(***************************************************************************)
EXTENDS Integers, Sequences, FiniteSets, TLC

\* ---------------------------------------------------------------- bounds
\* the remote service answers at most MaxChunks chunk calls with a null
\* final response before it returns a final response or an error
MaxChunks == 3
\* size of the uploaded file, in chunk units (status.total_size)
TotalSize == 3
\* highest version code the remote service assigns
MaxVersionCode == 32

\* ---------------------------------------------------------------- values
None == <<>>
Some(x) == <<x>>

Tracks == {"internal", "alpha", "beta", "production"}
Rollouts == {-10, 0, 1, 10, 50, 99, 100, 101, 150}
EditIds == {"e1", "e2"}
VersionCodes == (MaxVersionCode - 1)..MaxVersionCode
\* text of the exception raised by a remote call (it carries the HTTP code)
Errors == {"401", "403", "404", "409", "503"}
DefaultNotes == "Bug fixes and improvements"

\* MediaUploadProgress objects returned by next_chunk for intermediate chunks
Statuses == {[resumable_progress |-> b, total_size |-> TotalSize] : b \in 1..(TotalSize - 1)}
\* bodies of the final upload response: with or without the versionCode key
Responses == {("versionCode" :> v) : v \in VersionCodes} \cup {("sha1" :> 0)}

VARIABLES
    pc,                  \* position of the single thread of control
    package_name,        \* args.package_name or get_package_name(...)
    aab_path,            \* find_aab_file(...)
    sa_file_exists,      \* os.path.exists(SERVICE_ACCOUNT_FILE)
    track, rollout_percentage, draft, release_notes,
    edit_id,             \* edit['id']
    status, response,    \* the pair returned by the last next_chunk()
    chunks_done,         \* number of next_chunk() calls issued
    progress_log,        \* the progress percentages printed, in order
    version_code,
    release_config,
    calls,               \* remote requests executed, in order, with outcome
    failed_at,           \* step whose exception reached the except clause
    hint,                \* which troubleshooting text the handler printed
    summary_status,      \* the status line printed by the summary
    success,             \* return value of upload_to_google_play
    exit_code,           \* argument of sys.exit
    committed,           \* releases applied by the remote service
    other_pc,            \* another invocation for the same package, as the
                         \* remote service sees it
    insert_conflict,     \* the other invocation's edit was outstanding when
                         \* this run issued its insert request
    cancelled_at         \* number of requests issued when the run was interrupted

inputs == <<package_name, aab_path, sa_file_exists, track, rollout_percentage,
            draft, release_notes>>
upload_vars == <<status, response, chunks_done, progress_log>>
env == <<other_pc, cancelled_at>>
vars == <<pc, inputs, env, insert_conflict, edit_id, upload_vars, version_code, release_config,
          calls, failed_at, hint, summary_status, success, exit_code, committed>>

\* ---------------------------------------------------------------- helpers
\* a remote request as executed: what was sent and what came back
Call(op, eid, trk, body, st, resp, err) ==
    [op |-> op, editId |-> eid, track |-> trk, body |-> body,
     status |-> st, response |-> resp, err |-> err]

\* line 178: int(status.progress() * 100)
Progress(st) == (st.resumable_progress * 100) \div st.total_size

\* lines 177-179: progress is printed only for a truthy status
ReportProgressFront(log, st) == IF st # None THEN <<Progress(st[1])>> \o log ELSE log
ReportProgress(log, st) == IF st # None THEN Append(log, Progress(st[1])) ELSE log

\* line 175: while response is None
LoopContinuesOnStatus(st, resp) == resp = None /\ st = None
LoopContinues(st, resp) == resp = None

\* line 205: rollout_percentage / 100.0, kept as an exact fraction
UserFraction(r) == [num |-> r, den |-> 100]

\* lines 189-208: the release dictionary
BaseConfigNoVersion(vc, notes) ==
    [versionCodes |-> <<>>,
     releaseNotes |-> <<[language |-> "en-US", text |-> notes]>>]
BaseConfig(vc, notes) ==
    [versionCodes |-> <<vc>>,
     releaseNotes |-> <<[language |-> "en-US", text |-> notes]>>]

BuildReleaseLE(vc, notes, trk, r, d) ==
    IF d THEN BaseConfig(vc, notes) @@ ("status" :> "draft")
    ELSE IF trk = "production" /\ r <= 100
         THEN BaseConfig(vc, notes) @@ ("status" :> "inProgress")
                                    @@ ("userFraction" :> UserFraction(r))
         ELSE BaseConfig(vc, notes) @@ ("status" :> "completed")
BuildReleaseAnyTrack(vc, notes, trk, r, d) ==
    IF d THEN BaseConfig(vc, notes) @@ ("status" :> "draft")
    ELSE IF r < 100
         THEN BaseConfig(vc, notes) @@ ("status" :> "inProgress")
                                    @@ ("userFraction" :> UserFraction(r))
         ELSE BaseConfig(vc, notes) @@ ("status" :> "completed")
BuildReleaseDraftLast(vc, notes, trk, r, d) ==
    IF trk = "production" /\ r < 100
    THEN BaseConfig(vc, notes) @@ ("status" :> (IF d THEN "draft" ELSE "inProgress"))
                               @@ ("userFraction" :> UserFraction(r))
    ELSE BaseConfig(vc, notes) @@ ("status" :> (IF d THEN "draft" ELSE "completed"))
BuildRelease(vc, notes, trk, r, d) ==
    IF d THEN BaseConfig(vc, notes) @@ ("status" :> "draft")
    ELSE IF trk = "production" /\ r < 100
         THEN BaseConfig(vc, notes) @@ ("status" :> "inProgress")
                                    @@ ("userFraction" :> UserFraction(r))
         ELSE BaseConfig(vc, notes) @@ ("status" :> "completed")

\* lines 239-247: the status line of the summary
SummaryStatusLE(trk, r, d) ==
    IF d THEN [kind |-> "draft", rollout |-> None]
    ELSE IF trk = "production"
         THEN IF r <= 100 THEN [kind |-> "staged", rollout |-> Some(r)]
              ELSE [kind |-> "submitted", rollout |-> None]
         ELSE [kind |-> "published", rollout |-> None]
SummaryStatus(trk, r, d) ==
    IF d THEN [kind |-> "draft", rollout |-> None]
    ELSE IF trk = "production"
         THEN IF r < 100 THEN [kind |-> "staged", rollout |-> Some(r)]
              ELSE [kind |-> "submitted", rollout |-> None]
         ELSE [kind |-> "published", rollout |-> None]

\* lines 254-262: the troubleshooting text chosen from str(e)
Hint(e) == IF e = "403" THEN "permission" ELSE IF e = "404" THEN "not_found" ELSE "none"

\* the statement reached after a step of the try block: the next statement
\* when it raised nothing, the except clause's return otherwise
Successor(step) ==
    CASE step = "auth" -> "insert"
      [] step = "insert" -> "media"
      [] step = "media" -> "upload"
      [] step = "release" -> "track_update"
      [] step = "track_update" -> "commit"
      [] step = "commit" -> "summary"
      [] OTHER -> "returned"
AfterStepSwallow(step, err) ==
    IF err # None /\ step # "track_update" THEN "returned" ELSE Successor(step)
AfterStepRetry(step, err) ==
    IF err # None THEN (IF step = "insert" THEN "insert" ELSE "returned") ELSE Successor(step)
AfterStepInsertContinues(step, err) ==
    IF err # None /\ step # "insert" THEN "returned" ELSE Successor(step)
AfterStepRetryChunk(step, err) ==
    IF err # None THEN (IF step = "upload" THEN "upload" ELSE "returned") ELSE Successor(step)
AfterStep(step, err) == IF err # None THEN "returned" ELSE Successor(step)

\* lines 249 and 264: the value returned, given whether an exception was caught
ReturnValueAlwaysTrue(raised) == TRUE
ReturnValue(raised) == ~raised

\* line 332: sys.exit(0 if success else 1)
ExitCode(ok) == IF ok THEN 0 ELSE 1

\* line 251: `except Exception` catches every error raised in the try block,
\* whatever its text
CaughtOnlyHinted(e) == e \in {"403", "404"}
Caught(e) == TRUE

\* lines 251-264: the except clause; an exception it does not catch leaves
\* the function without a return value
Handler(step, e) ==
    IF Caught(e)
    THEN /\ failed_at' = step
         /\ hint' = Hint(e)
         /\ success' = Some(ReturnValue(TRUE))
    ELSE UNCHANGED <<failed_at, hint, success>>

\* line 157: edit_id = edit['id']
EditIdStale(edit) == "e1"
EditIdOf(edit) == edit.id

\* lines 304 and 314: `not package_name`, `not aab_path`
MissingNever(x) == FALSE
Missing(x) == x = None

NoHandler == UNCHANGED <<failed_at, hint, success>>

\* the run's edit is outstanding at the remote service: opened and not
\* committed (lines 156 and 226)
SelfOutstanding ==
    /\ edit_id # None
    /\ ~\E i \in DOMAIN calls : calls[i].op = "commit" /\ calls[i].err = None

\* the edit of the other invocation is outstanding at the remote service
OtherOutstanding == other_pc \in {"open", "abandoned"}

\* the remote service rejects an insert while an edit of the same package
\* is outstanding
RemoteAcceptsInsert == ~OtherOutstanding

\* ---------------------------------------------------------------- Init
Init ==
    /\ pc = "main"
    /\ package_name \in {None, Some("com.example.app")}
    /\ aab_path \in {None, Some("app-release.aab")}
    /\ sa_file_exists \in BOOLEAN
    /\ track \in Tracks
    /\ rollout_percentage \in Rollouts
    /\ draft \in BOOLEAN
    /\ release_notes = DefaultNotes
    /\ edit_id = None
    /\ status = None
    /\ response = None
    /\ chunks_done = 0
    /\ progress_log = <<>>
    /\ version_code = None
    /\ release_config = None
    /\ calls = <<>>
    /\ failed_at = "none"
    /\ hint = "none"
    /\ summary_status = None
    /\ success = None
    /\ exit_code = None
    /\ committed = <<>>
    /\ other_pc = "idle"
    /\ insert_conflict = FALSE
    /\ cancelled_at = None

\* ---------------------------------------------------------------- main()
\* lines 298-309
ResolvePackage ==
    /\ pc = "main"
    /\ IF Missing(package_name)
       THEN pc' = "exited" /\ exit_code' = Some(1)
       ELSE pc' = "find_aab" /\ UNCHANGED exit_code
    /\ UNCHANGED <<inputs, env, insert_conflict, edit_id, upload_vars, version_code, release_config,
                   calls, failed_at, hint, summary_status, success, committed>>

\* lines 311-320
FindAab ==
    /\ pc = "find_aab"
    /\ IF Missing(aab_path)
       THEN pc' = "exited" /\ exit_code' = Some(1)
       ELSE pc' = "check_sa" /\ UNCHANGED exit_code
    /\ UNCHANGED <<inputs, env, insert_conflict, edit_id, upload_vars, version_code, release_config,
                   calls, failed_at, hint, summary_status, success, committed>>

\* line 332
MainExit ==
    /\ pc = "returned"
    /\ success # None
    /\ pc' = "exited"
    /\ exit_code' = Some(ExitCode(success[1]))
    /\ UNCHANGED <<inputs, env, insert_conflict, edit_id, upload_vars, version_code, release_config,
                   calls, failed_at, hint, summary_status, success, committed>>

\* ------------------------------------------------- upload_to_google_play()
\* lines 128-141
CheckServiceAccount ==
    /\ pc = "check_sa"
    /\ IF sa_file_exists
       THEN pc' = "auth" /\ UNCHANGED success
       ELSE pc' = "returned" /\ success' = Some(FALSE)
    /\ UNCHANGED <<inputs, env, insert_conflict, edit_id, upload_vars, version_code, release_config,
                   calls, failed_at, hint, summary_status, exit_code, committed>>

\* lines 143-151: loading the credentials and building the client may raise
Authenticate ==
    /\ pc = "auth"
    /\ \E err \in {None, Some("invalid key file")} :
        /\ pc' = AfterStep("auth", err)
        /\ IF err # None THEN Handler("auth", err[1]) ELSE NoHandler
    /\ UNCHANGED <<inputs, env, insert_conflict, edit_id, upload_vars, version_code, release_config,
                   calls, summary_status, exit_code, committed>>

\* lines 153-158: edits().insert(...).execute()
InsertEdit ==
    /\ pc = "insert"
    /\ \/ \E id \in EditIds :
            /\ RemoteAcceptsInsert
            /\ calls' = Append(calls, Call("insert", None, None, None, None,
                                           Some("id" :> id), None))
            /\ edit_id' = Some(EditIdOf("id" :> id))
            /\ pc' = AfterStep("insert", None)
            /\ NoHandler
       \/ \E e \in Errors :
            /\ calls' = Append(calls, Call("insert", None, None, None, None, None, Some(e)))
            /\ pc' = AfterStep("insert", Some(e))
            /\ Handler("insert", e)
            /\ UNCHANGED edit_id
    /\ insert_conflict' = OtherOutstanding
    /\ UNCHANGED <<inputs, env, upload_vars, version_code, release_config,
                   summary_status, exit_code, committed>>

\* lines 160-171: os.path.getsize and MediaFileUpload open the file and may raise
PrepareMedia ==
    /\ pc = "media"
    /\ \E err \in {None, Some("No such file")} :
        /\ pc' = AfterStep("media", err)
        /\ IF err # None THEN Handler("media", err[1]) ELSE NoHandler
    /\ UNCHANGED <<inputs, env, insert_conflict, edit_id, upload_vars, version_code, release_config,
                   calls, summary_status, exit_code, committed>>

\* lines 173-179: one iteration of the loop, bundle_request.next_chunk()
NextChunk ==
    /\ pc = "upload"
    /\ chunks_done < MaxChunks
    /\ \/ \E st \in {None} \cup {Some(s) : s \in Statuses},
             resp \in {None} \cup {Some(b) : b \in Responses} :
            /\ chunks_done + 1 >= MaxChunks => resp # None
            /\ calls' = Append(calls, Call("chunk", edit_id, None, None, st, resp, None))
            /\ status' = st
            /\ response' = resp
            /\ chunks_done' = chunks_done + 1
            /\ progress_log' = ReportProgress(progress_log, st)
            /\ pc' = IF LoopContinues(st, resp) THEN "upload" ELSE "release"
            /\ NoHandler
       \/ \E e \in Errors :
            /\ calls' = Append(calls, Call("chunk", edit_id, None, None, None, None, Some(e)))
            /\ chunks_done' = chunks_done + 1
            /\ pc' = AfterStep("upload", Some(e))
            /\ Handler("upload", e)
            /\ UNCHANGED <<status, response, progress_log>>
    /\ UNCHANGED <<inputs, env, insert_conflict, edit_id, version_code, release_config,
                   summary_status, exit_code, committed>>

\* lines 181-208: response['versionCode'] (KeyError, or TypeError when the
\* loop was left with response None) and the release dictionary
CreateRelease ==
    /\ pc = "release"
    /\ IF response # None /\ "versionCode" \in DOMAIN response[1]
       THEN /\ version_code' = Some(response[1].versionCode)
            /\ release_config' = Some(BuildRelease(response[1].versionCode, release_notes,
                                                   track, rollout_percentage, draft))
            /\ pc' = AfterStep("release", None)
            /\ NoHandler
       ELSE /\ pc' = AfterStep("release", Some("versionCode"))
            /\ Handler("release", "versionCode")
            /\ UNCHANGED <<version_code, release_config>>
    /\ UNCHANGED <<inputs, env, insert_conflict, edit_id, upload_vars, calls, summary_status,
                   exit_code, committed>>

\* lines 210-218: edits().tracks().update(...).execute()
UpdateTrack ==
    /\ pc = "track_update"
    /\ \E err \in {None} \cup {Some(e) : e \in Errors} :
        /\ calls' = Append(calls, Call("update", edit_id, Some(track), release_config,
                                       None, None, err))
        /\ pc' = AfterStep("track_update", err)
        /\ IF err # None THEN Handler("track_update", err[1]) ELSE NoHandler
    /\ UNCHANGED <<inputs, env, insert_conflict, edit_id, upload_vars, version_code, release_config,
                   summary_status, exit_code, committed>>

\* lines 220-228: edits().commit(...).execute(); the remote service applies
\* the edit's release when it acknowledges the commit
CommitEdit ==
    /\ pc = "commit"
    /\ \E err \in {None} \cup {Some(e) : e \in Errors} :
        /\ calls' = Append(calls, Call("commit", edit_id, None, None, None, None, err))
        /\ pc' = AfterStep("commit", err)
        /\ IF err # None
           THEN Handler("commit", err[1]) /\ UNCHANGED committed
           ELSE NoHandler /\ committed' = Append(committed, release_config[1])
    /\ UNCHANGED <<inputs, env, insert_conflict, edit_id, upload_vars, version_code, release_config,
                   summary_status, exit_code>>

\* lines 230-249
Summary ==
    /\ pc = "summary"
    /\ summary_status' = Some(SummaryStatus(track, rollout_percentage, draft))
    /\ success' = Some(ReturnValue(FALSE))
    /\ pc' = "returned"
    /\ UNCHANGED <<inputs, env, insert_conflict, edit_id, upload_vars, version_code, release_config,
                   calls, failed_at, hint, exit_code, committed>>

Next ==
    \/ ResolvePackage
    \/ FindAab
    \/ CheckServiceAccount
    \/ Authenticate
    \/ InsertEdit
    \/ PrepareMedia
    \/ NextChunk
    \/ CreateRelease
    \/ UpdateTrack
    \/ CommitEdit
    \/ Summary
    \/ MainExit

Spec == Init /\ [][Next]_vars

TypeOK ==
    /\ pc \in {"main", "find_aab", "check_sa", "auth", "insert", "media", "upload",
               "release", "track_update", "commit", "summary", "returned", "exited", "interrupted"}
    /\ Len(calls) <= MaxChunks + 3
    /\ chunks_done \in 0..MaxChunks

\* ---------------------------------------------------------------- claims
ChunkCalls == SelectSeq(calls, LAMBDA c : c.op = "chunk")
UpdateCalls == SelectSeq(calls, LAMBDA c : c.op = "update")
CommitAcked == \E i \in DOMAIN calls : calls[i].op = "commit" /\ calls[i].err = None
RolloutInRange == rollout_percentage >= 0 /\ rollout_percentage <= 100

\* C1: the commit request is never issued after an earlier step has failed:
\* every request before a commit was acknowledged without error, and a run
\* whose failure happened before the commit step holds no commit request and
\* leaves the remote application state unchanged.
C1_NoCommitAfterFailure ==
    /\ \A i \in DOMAIN calls :
          calls[i].op = "commit" => \A j \in 1..(i - 1) : calls[j].err = None
    /\ failed_at \notin {"none", "commit"} =>
          /\ \A i \in DOMAIN calls : calls[i].op # "commit"
          /\ committed = <<>>
    /\ committed # <<>> => CommitAcked

C1_Witness ==
    /\ pc = "exited"
    /\ failed_at = "track_update"
    /\ Len(UpdateCalls) = 1
    /\ UpdateCalls[1].err # None

\* C2: the remote requests of one invocation are issued in the order insert,
\* chunks, track update, commit; insert, track update and commit at most
\* once each; and a request is issued only when the one before it was
\* acknowledged without error (insert is never issued again).
C2_FixedOrder ==
    /\ calls # <<>> => calls[1].op = "insert"
    /\ \A i \in DOMAIN calls : i > 1 =>
          /\ calls[i - 1].err = None
          /\ \/ calls[i - 1].op = "insert" /\ calls[i].op = "chunk"
             \/ calls[i - 1].op = "chunk" /\ calls[i].op = "chunk"
                    /\ calls[i - 1].response = None
             \/ calls[i - 1].op = "chunk" /\ calls[i].op = "update"
                    /\ calls[i - 1].response # None
             \/ calls[i - 1].op = "update" /\ calls[i].op = "commit"
    /\ \A op \in {"insert", "update", "commit"} :
          Cardinality({i \in DOMAIN calls : calls[i].op = op}) <= 1

C2_Witness ==
    /\ pc = "exited"
    /\ Len(calls) = MaxChunks + 3
    /\ calls[Len(calls)].op = "commit"
    /\ success = Some(TRUE)

\* C3: upload_to_google_play returns True, and the process exits with code
\* 0, only when the commit request was issued and acknowledged; when the
\* function was entered and the commit was not reached or raised, it returns
\* False and the process exits with code 1.
C3_SuccessOnlyIfCommitted ==
    /\ success = Some(TRUE) => CommitAcked
    /\ exit_code = Some(0) => CommitAcked /\ success = Some(TRUE)
    /\ (pc \in {"returned", "exited"} /\ success # None /\ ~CommitAcked) =>
          success = Some(FALSE)
    /\ (pc = "exited" /\ success # None /\ ~CommitAcked) => exit_code = Some(1)

C3_Witness ==
    /\ pc = "exited"
    /\ failed_at = "commit"
    /\ calls[Len(calls)].op = "commit"
    /\ success = Some(FALSE)
    /\ exit_code = Some(1)

\* C4: on the production track with draft false and a rollout percentage r
\* in [0,100], the release dictionary has status inProgress with
\* userFraction r/100 exactly when r < 100, and for r = 100 it has status
\* completed and no userFraction.
C4_ProductionRollout ==
    (release_config # None /\ ~draft /\ track = "production" /\ RolloutInRange) =>
        LET rc == release_config[1] IN
        /\ (/\ rc.status = "inProgress"
            /\ "userFraction" \in DOMAIN rc
            /\ rc.userFraction.num * 100 = rollout_percentage * rc.userFraction.den)
           <=> rollout_percentage < 100
        /\ rollout_percentage = 100 =>
              rc.status = "completed" /\ "userFraction" \notin DOMAIN rc

C4_Witness ==
    /\ release_config # None
    /\ ~draft
    /\ track = "production"
    /\ rollout_percentage = 100
    /\ release_config[1].status = "completed"
    /\ Len(UpdateCalls) = 1

\* C5: on every track other than production with draft false, the release
\* dictionary has status completed and no userFraction, whatever the rollout
\* percentage.
C5_OtherTracksCompleted ==
    (release_config # None /\ ~draft /\ track # "production") =>
        /\ release_config[1].status = "completed"
        /\ "userFraction" \notin DOMAIN release_config[1]

C5_Witness ==
    /\ release_config # None
    /\ ~draft
    /\ track = "beta"
    /\ rollout_percentage = 10
    /\ Len(UpdateCalls) = 1

\* C6: with draft true the release dictionary has status draft and no
\* userFraction on every track and for every rollout percentage, and the
\* body sent with the track update has no userFraction either.
C6_DraftNoFraction ==
    draft =>
        /\ release_config # None =>
              /\ release_config[1].status = "draft"
              /\ "userFraction" \notin DOMAIN release_config[1]
        /\ \A i \in DOMAIN calls : calls[i].op = "update" =>
              /\ calls[i].body # None
              /\ calls[i].body[1].status = "draft"
              /\ "userFraction" \notin DOMAIN calls[i].body[1]

C6_Witness ==
    /\ draft
    /\ track = "production"
    /\ rollout_percentage = 10
    /\ Len(UpdateCalls) = 1
    /\ UpdateCalls[1].body[1].status = "draft"

\* C7: a rollout percentage outside [0,100] makes the run fail before any
\* remote request: no insert, chunk, track update or commit is issued and
\* the run does not succeed.
C7_OutOfRangeFailsFast ==
    ~RolloutInRange =>
        /\ calls = <<>>
        /\ success # Some(TRUE)
        /\ pc \in {"returned", "exited"} => success = Some(FALSE) \/ exit_code = Some(1)

\* C8: every release dictionary sent with a track update has a userFraction
\* exactly when its status is inProgress, and a userFraction that is present
\* lies strictly between 0 and 1.
C8_FractionStrictlyInside ==
    \A i \in DOMAIN calls : calls[i].op = "update" =>
        LET b == calls[i].body[1] IN
        /\ ("userFraction" \in DOMAIN b) <=> (b.status = "inProgress")
        /\ "userFraction" \in DOMAIN b =>
              /\ 0 < b.userFraction.num
              /\ b.userFraction.num < b.userFraction.den

\* C9: a chunk request acknowledged with a null final response is followed
\* by another chunk request, whether its status was null or not, and after a
\* chunk request acknowledged with a non-null final response no further
\* chunk is requested.
C9_LoopEndsOnFinalResponse ==
    \A i \in DOMAIN calls : (calls[i].op = "chunk" /\ calls[i].err = None) =>
        IF calls[i].response = None
        THEN IF i = Len(calls) THEN pc = "upload" ELSE calls[i + 1].op = "chunk"
        ELSE /\ pc # "upload"
             /\ \A j \in DOMAIN calls : j > i => calls[j].op # "chunk"

C9_Witness ==
    /\ Len(ChunkCalls) >= 3
    /\ ChunkCalls[1].status # None /\ ChunkCalls[1].response = None
    /\ ChunkCalls[2].status = None /\ ChunkCalls[2].response = None
    /\ ChunkCalls[3].status # None /\ ChunkCalls[3].response # None
    /\ pc = "exited"

\* the chunk acknowledgments so far are N-1 progress statuses followed by
\* one final response
ProgressThenFinal(cs) ==
    /\ cs # <<>>
    /\ \A k \in 1..(Len(cs) - 1) :
          cs[k].err = None /\ cs[k].status # None /\ cs[k].response = None
    /\ cs[Len(cs)].err = None
    /\ cs[Len(cs)].status = None
    /\ cs[Len(cs)].response # None

\* C10: when chunks 1..N-1 return a progress status and chunk N the final
\* response, exactly N chunk requests are issued, progress is printed N-1
\* times in the order of the acknowledgments, and the version code used
\* afterwards is the one of the N-th response.
C10_UploadResult ==
    LET cs == ChunkCalls IN
    ProgressThenFinal(cs) =>
        /\ pc # "upload"
        /\ chunks_done = Len(cs)
        /\ Len(progress_log) = Len(cs) - 1
        /\ \A k \in 1..(Len(cs) - 1) : progress_log[k] = Progress(cs[k].status[1])
        /\ version_code # None => version_code = Some(cs[Len(cs)].response[1].versionCode)
        /\ (pc \notin {"upload", "release"} /\ "versionCode" \in DOMAIN cs[Len(cs)].response[1]) =>
              /\ version_code = Some(cs[Len(cs)].response[1].versionCode)
              /\ failed_at # "release"
        /\ \A i \in DOMAIN calls : calls[i].op = "update" =>
              calls[i].body[1].versionCodes = <<cs[Len(cs)].response[1].versionCode>>

C10_Witness ==
    /\ ProgressThenFinal(ChunkCalls)
    /\ Len(ChunkCalls) = 3
    /\ Len(progress_log) = 2
    /\ progress_log[1] < progress_log[2]
    /\ version_code = Some(MaxVersionCode)
    /\ Len(UpdateCalls) = 1

\* C11: when the insert request fails, it is the only remote request of
\* the run: no chunk, track update or commit is issued, the function returns
\* False and the process exits with code 1.
C11_OpenFailureAborts ==
    (calls # <<>> /\ calls[1].op = "insert" /\ calls[1].err # None) =>
        /\ Len(calls) = 1
        /\ pc \in {"returned", "exited"}
        /\ success = Some(FALSE)
        /\ committed = <<>>
        /\ pc = "exited" => exit_code = Some(1)

C11_Witness ==
    /\ pc = "exited"
    /\ Len(calls) = 1
    /\ calls[1].op = "insert"
    /\ calls[1].err = Some("401")
    /\ exit_code = Some(1)

\* C12: after a successful publish the status line of the summary agrees
\* with the release dictionary that was sent: draft with draft, a staged
\* rollout of the requested percentage with inProgress, submitted (on
\* production) or published (on other tracks) with completed; production
\* with rollout 100 reports submitted and production with rollout 10 a
\* staged rollout whose percentage is the fraction 10/100 that was sent.
C12_SummaryAgrees ==
    (summary_status # None) =>
        LET s == summary_status[1]
            rc == UpdateCalls[1].body[1] IN
        /\ success = Some(TRUE)
        /\ (s.kind = "draft") <=> (rc.status = "draft")
        /\ (s.kind = "staged") <=> (rc.status = "inProgress")
        /\ (s.kind \in {"submitted", "published"}) <=> (rc.status = "completed")
        /\ s.kind = "submitted" => track = "production"
        /\ s.kind = "published" => track # "production"
        /\ s.kind = "staged" =>
              /\ s.rollout = Some(rollout_percentage)
              /\ s.rollout[1] * rc.userFraction.den = rc.userFraction.num * 100
        /\ (~draft /\ track = "production" /\ rollout_percentage = 100) =>
              s.kind = "submitted"
        /\ (~draft /\ track = "production" /\ rollout_percentage = 10) =>
              s.kind = "staged" /\ rc.userFraction = [num |-> 10, den |-> 100]

C12_Witness ==
    /\ summary_status # None
    /\ ~draft
    /\ track = "production"
    /\ rollout_percentage = 10
    /\ summary_status[1].kind = "staged"
    /\ pc = "exited"

\* C15: every chunk, track update and commit request carries the edit
\* identifier that the insert request of the same run returned, and at most
\* one commit request is issued.
C15_OneEditId ==
    /\ \A i \in DOMAIN calls : calls[i].op # "insert" =>
          /\ calls[1].op = "insert"
          /\ calls[1].response # None
          /\ calls[i].editId = Some(calls[1].response[1].id)
    /\ Cardinality({i \in DOMAIN calls : calls[i].op = "commit"}) <= 1

C15_Witness ==
    /\ pc = "exited"
    /\ calls # <<>>
    /\ calls[1].response = Some("id" :> "e2")
    /\ calls[Len(calls)].op = "commit"
    /\ calls[Len(calls)].editId = Some("e2")
    /\ Len(ChunkCalls) >= 2

\* C16: the release dictionary sent with the track update holds exactly one
\* version code, the one of the final upload response of the same run, and
\* the track update is addressed to the requested track.
C16_OneVersionOnTrack ==
    \A i \in DOMAIN calls : calls[i].op = "update" =>
        LET last == ChunkCalls[Len(ChunkCalls)] IN
        /\ last.response # None
        /\ Len(calls[i].body[1].versionCodes) = 1
        /\ calls[i].body[1].versionCodes[1] = last.response[1].versionCode
        /\ calls[i].track = Some(track)

C16_Witness ==
    /\ Len(UpdateCalls) = 1
    /\ UpdateCalls[1].body[1].versionCodes = <<MaxVersionCode - 1>>
    /\ UpdateCalls[1].track = Some("alpha")

\* C18: a remote request that fails, at whatever step and with whatever
\* error, is the last request of the run and makes the function return
\* False: the error does not leave the function.
C18_UniformFailure ==
    \A i \in DOMAIN calls : calls[i].err # None =>
        /\ i = Len(calls)
        /\ pc \in {"returned", "exited"}
        /\ success = Some(FALSE)
        /\ failed_at # "none"

C18_Witness ==
    /\ pc = "exited"
    /\ failed_at = "upload"
    /\ calls[Len(calls)].op = "chunk"
    /\ calls[Len(calls)].err = Some("503")
    /\ success = Some(FALSE)

\* C19: when the package name cannot be resolved, no AAB file is found or
\* the service account file does not exist, no remote request is issued and
\* the process exits with code 1.
C19_NoRemoteWithoutInputs ==
    (package_name = None \/ aab_path = None \/ ~sa_file_exists) =>
        /\ calls = <<>>
        /\ pc \notin {"auth", "insert", "media", "upload", "release",
                      "track_update", "commit", "summary"}
        /\ pc = "exited" => exit_code = Some(1)

C19_Witness ==
    /\ pc = "exited"
    /\ package_name # None
    /\ aab_path = None
    /\ exit_code = Some(1)
    /\ calls = <<>>

\* ------------------------------------------------------------ interruption
\* KeyboardInterrupt is not an Exception: it passes the except clause of
\* line 251 and the call in main (lines 323-332), and ends the process
AfterInterruptIgnored(step) == step
AfterInterrupt(step) == "interrupted"

\* an external interrupt arrives between two steps; the interpreter ends
\* with the status of an unhandled KeyboardInterrupt (130 in a shell)
Cancel ==
    /\ pc \notin {"exited", "interrupted"}
    /\ cancelled_at = None
    /\ cancelled_at' = Some(Len(calls))
    /\ pc' = AfterInterrupt(pc)
    /\ exit_code' = IF AfterInterrupt(pc) = "interrupted" THEN Some(130) ELSE exit_code
    /\ UNCHANGED <<inputs, other_pc, insert_conflict, edit_id, upload_vars, version_code, release_config,
                   calls, failed_at, hint, summary_status, success, committed>>

NextCancel ==
    \/ ResolvePackage
    \/ FindAab
    \/ CheckServiceAccount
    \/ Authenticate
    \/ InsertEdit
    \/ PrepareMedia
    \/ NextChunk
    \/ CreateRelease
    \/ UpdateTrack
    \/ CommitEdit
    \/ Summary
    \/ MainExit
    \/ Cancel

SpecCancel == Init /\ [][NextCancel]_vars

\* C14: after an interrupt no further remote request is issued, and when the
\* interrupt came before the commit request the remote service has applied
\* nothing, the function has not returned True and the process does not
\* exit with code 0.
C14_CancelLeavesUncommitted ==
    cancelled_at # None =>
        /\ Len(calls) = cancelled_at[1]
        /\ pc = "interrupted"
        /\ (\A i \in DOMAIN calls : calls[i].op # "commit") =>
              /\ committed = <<>>
              /\ success # Some(TRUE)
              /\ exit_code # Some(0)

C14_Witness ==
    /\ cancelled_at # None
    /\ pc = "interrupted"
    /\ calls # <<>>
    /\ calls[Len(calls)].op = "update"
    /\ calls[Len(calls)].err = None
    /\ committed = <<>>

\* ------------------------------------------------------------- termination
\* the single thread of control takes its next step whenever it has one, and
\* the remote service answers every request
SpecFair == Init /\ [][Next]_vars /\ WF_vars(Next)

\* C17: a chunk request that fails is not repeated: it is the last request
\* of the run, at most one chunk request fails, and the run then ends in
\* failure; and every run reaches its exit.
C17_FailedChunkEndsRun ==
    /\ [](\A i \in DOMAIN calls : (calls[i].op = "chunk" /\ calls[i].err # None) =>
              /\ i = Len(calls)
              /\ pc \in {"returned", "exited"}
              /\ success = Some(FALSE)
              /\ Len(ChunkCalls) <= MaxChunks)
    /\ <>(pc = "exited")

C17_Witness ==
    /\ pc = "exited"
    /\ Len(ChunkCalls) = 2
    /\ ChunkCalls[1].err = None
    /\ ChunkCalls[2].err = Some("503")
    /\ exit_code = Some(1)

\* ------------------------------------------------------- two invocations
\* A second invocation of the script for the same package, seen through its
\* effect on the remote service: it opens an edit (line 156), then commits
\* it (line 226) or fails and leaves it outstanding until the service
\* expires it.
OtherRelease == BuildRelease(MaxVersionCode, DefaultNotes, "production", 100, FALSE)

OtherOpens ==
    /\ other_pc = "idle"
    /\ other_pc' = IF SelfOutstanding THEN "rejected" ELSE "open"
    /\ UNCHANGED <<pc, inputs, cancelled_at, insert_conflict, edit_id, upload_vars,
                   version_code, release_config, calls, failed_at, hint,
                   summary_status, success, exit_code, committed>>

OtherCommits ==
    /\ other_pc = "open"
    /\ other_pc' = "committed"
    /\ committed' = Append(committed, OtherRelease)
    /\ UNCHANGED <<pc, inputs, cancelled_at, insert_conflict, edit_id, upload_vars,
                   version_code, release_config, calls, failed_at, hint,
                   summary_status, success, exit_code>>

OtherFails ==
    /\ other_pc = "open"
    /\ other_pc' = "abandoned"
    /\ UNCHANGED <<pc, inputs, cancelled_at, insert_conflict, edit_id, upload_vars,
                   version_code, release_config, calls, failed_at, hint,
                   summary_status, success, exit_code, committed>>

OtherExpires ==
    /\ other_pc = "abandoned"
    /\ other_pc' = "expired"
    /\ UNCHANGED <<pc, inputs, cancelled_at, insert_conflict, edit_id, upload_vars,
                   version_code, release_config, calls, failed_at, hint,
                   summary_status, success, exit_code, committed>>

\* the run under study has all its local inputs
InitConflict ==
    /\ Init
    /\ package_name # None
    /\ aab_path # None
    /\ sa_file_exists
    /\ track \in {"production", "beta"}
    /\ rollout_percentage \in {10, 100}

NextConflict ==
    \/ ResolvePackage
    \/ FindAab
    \/ CheckServiceAccount
    \/ Authenticate
    \/ InsertEdit
    \/ PrepareMedia
    \/ NextChunk
    \/ CreateRelease
    \/ UpdateTrack
    \/ CommitEdit
    \/ Summary
    \/ MainExit
    \/ OtherOpens
    \/ OtherCommits
    \/ OtherFails
    \/ OtherExpires

SpecConflict == InitConflict /\ [][NextConflict]_vars

\* releases in `committed` that this run applied
SelfApplied == Len(committed) - (IF other_pc = "committed" THEN 1 ELSE 0)

====
